---- MODULE Spec2Model ----
(***************************************************************************)
(* Model of resin-css: the template interpolator (extractCssTemplate), the *)
(* nested-CSS flattener (extractNestedCss) and the class-name cache that   *)
(* feeds the interpolator (createCssBallCached).                           *)
(*                                                                         *)
(* Texts are TLA+ strings; TLC evaluates Len, \o, SubSeq, Head and Tail on *)
(* them character by character, so every regular expression of the source *)
(* is modelled by an operator that scans the characters as the regular     *)
(* expression does.                                                        *)
(***************************************************************************)
EXTENDS Integers, Sequences, FiniteSets, TLC


\* ------------------------------------------------------------------------
\* JavaScript string primitives
\* ------------------------------------------------------------------------

Ch(s, i) == SubSeq(s, i, i)

Drop(s, n) == SubSeq(s, n + 1, Len(s))

Take(s, n) == SubSeq(s, 1, n)

\* \s of a JavaScript regular expression, over the characters of the model
IsSpace(c) == c \in {" ", "\n", "\r", "\t"}

\* the characters the "." of a regular expression does not match
IsLineTerminator(c) == c \in {"\n", "\r"}

Letters ==
  {"a","b","c","d","e","f","g","h","i","j","k","l","m",
   "n","o","p","q","r","s","t","u","v","w","x","y","z"}

Digits == {"0","1","2","3","4","5","6","7","8","9"}

\* \w of a JavaScript regular expression
IsWordChar(c) == c \in Letters \cup Digits \cup {"_"}

\* String.prototype.startsWith
startsWith(s, p) == Len(s) >= Len(p) /\ Take(s, Len(p)) = p

\* String.prototype.endsWith
endsWith(s, p) == Len(s) >= Len(p) /\ Drop(s, Len(s) - Len(p)) = p

\* p occurs in s at position i
MatchAt(s, i, p) == i + Len(p) - 1 <= Len(s) /\ SubSeq(s, i, i + Len(p) - 1) = p

\* String.prototype.includes
includes(s, p) == \E i \in 1..(Len(s) + 1) : MatchAt(s, i, p)

\* first position of lo..hi that satisfies P, 0 when there is none
FirstPos(lo, hi, P(_)) ==
  IF \E j \in lo..hi : P(j)
  THEN CHOOSE j \in lo..hi : P(j) /\ \A k \in lo..(j - 1) : ~P(k)
  ELSE 0

\* last position of lo..hi that satisfies P, 0 when there is none
LastPos(lo, hi, P(_)) ==
  IF \E j \in lo..hi : P(j)
  THEN CHOOSE j \in lo..hi : P(j) /\ \A k \in (j + 1)..hi : ~P(k)
  ELSE 0

\* String.prototype.trim
trim(s) ==
  LET first == FirstPos(1, Len(s), LAMBDA j : ~IsSpace(Ch(s, j)))
      last  == LastPos(1, Len(s), LAMBDA j : ~IsSpace(Ch(s, j)))
  IN  IF first = 0 THEN "" ELSE SubSeq(s, first, last)

\* A global replace, s.replace(/re/g, ...): the matches are taken from left
\* to right and do not overlap.  ends[j] is the last position of the match of
\* the regular expression that starts at j (0 when it does not match there),
\* reps[j] the text that replaces that match; the scan starts at i
RECURSIVE ReplaceMatches(_, _, _, _)
ReplaceMatches(s, i, ends, reps) ==
  LET p == FirstPos(i, Len(s), LAMBDA j : ends[j] > 0) IN
  IF p = 0 THEN SubSeq(s, i, Len(s))
  ELSE SubSeq(s, i, p - 1) \o reps[p] \o ReplaceMatches(s, ends[p] + 1, ends, reps)

\* String.prototype.replaceAll(pat, rep) for a replacement text without "$"
replaceAll(s, pat, rep) ==
  ReplaceMatches(s, 1,
    [j \in 1..Len(s) |-> IF MatchAt(s, j, pat) THEN j + Len(pat) - 1 ELSE 0],
    [j \in 1..Len(s) |-> rep])

\* String.prototype.split with a non-empty string separator
RECURSIVE SplitFrom(_, _, _)
SplitFrom(s, sep, i) ==
  LET p == FirstPos(i, Len(s), LAMBDA j : MatchAt(s, j, sep)) IN
  IF p = 0 THEN << SubSeq(s, i, Len(s)) >>
  ELSE << SubSeq(s, i, p - 1) >> \o SplitFrom(s, sep, p + Len(sep))

split(s, sep) == SplitFrom(s, sep, 1)

\* Array.prototype.join
RECURSIVE join(_, _)
join(xs, sep) ==
  IF xs = << >> THEN ""
  ELSE IF Len(xs) = 1 THEN xs[1]
  ELSE xs[1] \o sep \o join(Tail(xs), sep)

\* .filter((a) => !!a) on an array of strings
SelectNonEmpty(xs) == SelectSeq(xs, LAMBDA a : a # "")

\* .map((a) => a.trim())
TrimEach(xs) == [k \in 1..Len(xs) |-> trim(xs[k])]

\* ------------------------------------------------------------------------
\* Regular expressions shared by extractCssTemplate and the normaliser
\* ------------------------------------------------------------------------

\* the character class [:{;~,]
IsTightChar(c) == c \in {":", "{", ";", "~", ","}

\* first position at or after i that does not hold white space
SkipSpaces(s, i) ==
  LET p == FirstPos(i, Len(s), LAMBDA j : ~IsSpace(Ch(s, j))) IN
  IF p = 0 THEN Len(s) + 1 ELSE p

\* /\s*([:{;~,])\s*/ matches at j when the white space from j on ends at one
\* of the characters; the match then takes the white space after it too
TightEnd(s, j) ==
  LET t == SkipSpaces(s, j) IN
  IF t <= Len(s) /\ IsTightChar(Ch(s, t)) THEN SkipSpaces(s, t + 1) - 1 ELSE 0

\* .replace(/\s*([:{;~,])\s*/g, (_, p1) => p1)
removeSpacesAroundChars(s) ==
  ReplaceMatches(s, 1,
    [j \in 1..Len(s) |-> TightEnd(s, j)],
    [j \in 1..Len(s) |-> Ch(s, SkipSpaces(s, j))])

\* ------------------------------------------------------------------------
\* transformCssBodyTextToNormalizedLines
\* ------------------------------------------------------------------------

\* /\/\*.*?\*\// at j: the nearest "*/" after the "/*", unless a line
\* terminator comes first ("." does not match one)
BlockCommentEnd(s, j) ==
  LET k == FirstPos(j + 2, Len(s),
                    LAMBDA m : MatchAt(s, m, "*/") \/ IsLineTerminator(Ch(s, m)))
  IN  IF MatchAt(s, j, "/*") /\ k > 0 /\ MatchAt(s, k, "*/") THEN k + 1 ELSE 0

\* .replace(/\/\*.*?\*\//g, "")
removeBlockComments(s) ==
  ReplaceMatches(s, 1,
    [j \in 1..Len(s) |-> BlockCommentEnd(s, j)],
    [j \in 1..Len(s) |-> ""])

\* /\/\/.*\r?\n/ at j: "//", the rest of the line, and its "\n" or "\r\n"
LineCommentEnd(s, j) ==
  LET k == FirstPos(j + 2, Len(s), LAMBDA m : IsLineTerminator(Ch(s, m))) IN
  IF ~MatchAt(s, j, "//") \/ k = 0 THEN 0
  ELSE IF MatchAt(s, k, "\n") THEN k
  ELSE IF MatchAt(s, k, "\r\n") THEN k + 1
  ELSE 0

\* .replace(/\/\/.*\r?\n/g, "")
removeLineComments(s) ==
  ReplaceMatches(s, 1,
    [j \in 1..Len(s) |-> LineCommentEnd(s, j)],
    [j \in 1..Len(s) |-> ""])

\* /&\s+\./ at j
AmpersandDotEnd(s, j) ==
  LET k == SkipSpaces(s, j + 1) IN
  IF Ch(s, j) = "&" /\ k > j + 1 /\ MatchAt(s, k, ".") THEN k ELSE 0

\* .replace(/&\s+\./g, "&.")
joinAmpersandDot(s) ==
  ReplaceMatches(s, 1,
    [j \in 1..Len(s) |-> AmpersandDotEnd(s, j)],
    [j \in 1..Len(s) |-> "&."])

\* .replace(/\r?\n/g, "")
removeNewlines(s) ==
  ReplaceMatches(s, 1,
    [j \in 1..Len(s) |-> IF MatchAt(s, j, "\r\n") THEN j + 1
                         ELSE IF MatchAt(s, j, "\n") THEN j ELSE 0],
    [j \in 1..Len(s) |-> ""])

\* .replace(/[;{}]/g, (m) => `${m}\n`)
breakAfterTerminators(s) ==
  ReplaceMatches(s, 1,
    [j \in 1..Len(s) |-> IF Ch(s, j) \in {";", "{", "}"} THEN j ELSE 0],
    [j \in 1..Len(s) |-> Ch(s, j) \o "\n"])

transformCssBodyTextToNormalizedLines(cssBodyText) ==
  SelectNonEmpty(TrimEach(split(
    breakAfterTerminators(removeNewlines(joinAmpersandDot(removeSpacesAroundChars(
      removeLineComments(removeBlockComments(cssBodyText)))))),
    "\n")))

\* ------------------------------------------------------------------------
\* Helpers of helpers.ts
\* ------------------------------------------------------------------------

\* all pairs <<a, b>>, a from ar (outer loop), b from br (inner loop)
\* C2 mutant: the pairs with the second array as the outer loop
arrayDiallelInnerFirst(ar, br) ==
  [k \in 1..(Len(ar) * Len(br)) |->
     << ar[((k - 1) % Len(ar)) + 1], br[((k - 1) \div Len(ar)) + 1] >>]

arrayDiallel(ar, br) ==
  [k \in 1..(Len(ar) * Len(br)) |->
     << ar[((k - 1) \div Len(br)) + 1], br[((k - 1) % Len(br)) + 1] >>]

\* items.indexOf(it): the first index that holds it
IndexOf(items, it) == FirstPos(1, Len(items), LAMBDA j : items[j] = it)

\* items.filter((it, index) => items.indexOf(it) == index)
uniqueArrayItems(items) ==
  LET kept == { k \in 1..Len(items) : IndexOf(items, items[k]) = k }
      nth(n) == CHOOSE k \in kept : Cardinality({ j \in kept : j < k }) = n - 1
  IN  [n \in 1..Cardinality(kept) |-> items[nth(n)]]

\* ------------------------------------------------------------------------
\* Selector composition
\* ------------------------------------------------------------------------

\* The replacement patterns of String.prototype.replace in the replacement
\* text rep, for the match of "&" at position at of seg: "$$" is a dollar
\* sign, "$&" the match, "$'" the text after the match.  /&/g has no capture
\* group, so $1..$99 stay as they are.  The fourth pattern, a dollar sign
\* followed by a backquote (the text before the match), is absent: a TLA+
\* string cannot hold a backquote, so no text of the model contains one.
IsReplacementPattern(rep, k) ==
  MatchAt(rep, k, "$$") \/ MatchAt(rep, k, "$&") \/ MatchAt(rep, k, "$'")

ExpandReplacement(rep, seg, at) ==
  ReplaceMatches(rep, 1,
    [k \in 1..Len(rep) |-> IF IsReplacementPattern(rep, k) THEN k + 1 ELSE 0],
    [k \in 1..Len(rep) |-> IF MatchAt(rep, k, "$$") THEN "$"
                           ELSE IF MatchAt(rep, k, "$&") THEN "&"
                           ELSE Drop(seg, at)])

\* seg.replace(/&/g, path)
replaceAmpersand(seg, path) ==
  ReplaceMatches(seg, 1,
    [j \in 1..Len(seg) |-> IF Ch(seg, j) = "&" THEN j ELSE 0],
    [j \in 1..Len(seg) |-> ExpandReplacement(path, seg, j)])

\* /^[a-zA-Z.#*\[:]/ (the model's letters are lower case)
IsSelectorStart(seg) ==
  seg # "" /\ Ch(seg, 1) \in Letters \cup {".", "#", "*", "[", ":"}

concatPathSegment(path, seg) ==
  IF includes(seg, "&") THEN trim(replaceAmpersand(seg, path))
  ELSE IF path # "" /\ IsWordChar(Ch(path, Len(path))) /\ IsSelectorStart(seg)
       THEN path \o " " \o seg
       ELSE path \o seg

\* arrayDiallel(srcPaths, inputSegs).map((z) => concatPathSegment(z[0], z[1]))
ConcatEach(pairs) == [k \in 1..Len(pairs) |-> concatPathSegment(pairs[k][1], pairs[k][2])]

concatPathSegmentEx(srcPath, inputSeg) ==
  join(ConcatEach(arrayDiallel(split(srcPath, ","), split(inputSeg, ","))), ",")

\* tails.reduce(concatPathSegmentEx, head)
RECURSIVE ReducePaths(_, _)
ReducePaths(acc, tails) ==
  IF tails = << >> THEN acc
  ELSE ReducePaths(concatPathSegmentEx(acc, tails[1]), Tail(tails))

\* selectorPaths[0] of an empty array is undefined; every use of the result
\* is a template literal, which renders undefined as the text "undefined"
combineSelectorPaths(selectorPaths) ==
  IF Len(selectorPaths) >= 2 THEN ReducePaths(selectorPaths[1], Tail(selectorPaths))
  ELSE IF Len(selectorPaths) = 1 THEN selectorPaths[1]
  ELSE "undefined"

\* ------------------------------------------------------------------------
\* Media query merging
\* ------------------------------------------------------------------------

\* mq.replace(/^(@media|@container)\s/, "")
stripGroupKeyword(mq) ==
  IF startsWith(mq, "@media") /\ Len(mq) >= 7 /\ IsSpace(Ch(mq, 7)) THEN Drop(mq, 7)
  ELSE IF startsWith(mq, "@container") /\ Len(mq) >= 11 /\ IsSpace(Ch(mq, 11))
       THEN Drop(mq, 11)
       ELSE mq

\* .map(mq => ... .split("and").map(it => it.trim())).flat()
RECURSIVE MediaQueryParts(_)
MediaQueryParts(specs) ==
  IF specs = << >> THEN << >>
  ELSE TrimEach(split(stripGroupKeyword(specs[1]), "and")) \o MediaQueryParts(Tail(specs))

combineMediaQueries(mediaQuerySpecs) ==
  IF Len(mediaQuerySpecs) = 0 THEN ""
  ELSE LET parts == uniqueArrayItems(MediaQueryParts(mediaQuerySpecs))
           head  == split(mediaQuerySpecs[1], " ")[1]
       IN  head \o " " \o join(parts, " and ")

\* ------------------------------------------------------------------------
\* Rule slots
\* ------------------------------------------------------------------------

\* cssSlots is a plain object ({}): a read cssSlots[key] of a key the object
\* does not own reaches Object.prototype, whose properties are all truthy
ObjectPrototypeKeys ==
  {"constructor", "toString", "toLocaleString", "valueOf", "hasOwnProperty",
   "isPrototypeOf", "propertyIsEnumerable", "__proto__", "__defineGetter__",
   "__defineSetter__", "__lookupGetter__", "__lookupSetter__"}

\* the own properties of cssSlots, in insertion order, as slot records that
\* carry their key
HasOwnSlot(slots, key) == \E k \in 1..Len(slots) : slots[k].key = key

SlotIndex(slots, key) == CHOOSE k \in 1..Len(slots) : slots[k].key = key

\* narrowers.findIndex((it) => it.startsWith("@keyframes")), 0 for -1
findKeyframeIndex(narrowers) ==
  IF \E k \in 1..Len(narrowers) : startsWith(narrowers[k], "@keyframes")
  THEN CHOOSE k \in 1..Len(narrowers) :
         /\ startsWith(narrowers[k], "@keyframes")
         /\ \A j \in 1..(k - 1) : ~startsWith(narrowers[j], "@keyframes")
  ELSE 0

\* it.match(/^(@media|@container)/)
IsConditionalGroup(it) == startsWith(it, "@media") \/ startsWith(it, "@container")

\* narrowers.filter((it) => it.match(...)) and its complement
FilterNarrowers(narrowers, wantGroup) ==
  SelectSeq(narrowers, LAMBDA it : IsConditionalGroup(it) = wantGroup)

\* C12 mutant: the selector path composed from every entry of the stack that
\* is no @media or @container spec, the enclosing ones included
resolveSelectorPathFromAll(narrowers) ==
  combineSelectorPaths(FilterNarrowers(narrowers, FALSE))

\* the selectorPath that prepareCssSlot resolves from the stack
resolveSelectorPath(narrowers) ==
  LET pathPartsKeyframeIndex == findKeyframeIndex(narrowers) IN
  IF pathPartsKeyframeIndex >= 1
  THEN combineSelectorPaths(SubSeq(narrowers, pathPartsKeyframeIndex + 1, Len(narrowers)))
  ELSE combineSelectorPaths(FilterNarrowers(narrowers, FALSE))

\* the groupRuleSpec that prepareCssSlot resolves from the stack
resolveGroupRuleSpec(narrowers) ==
  LET pathPartsKeyframeIndex == findKeyframeIndex(narrowers) IN
  IF pathPartsKeyframeIndex >= 1
  THEN narrowers[pathPartsKeyframeIndex]
  ELSE combineMediaQueries(FilterNarrowers(narrowers, TRUE))

\* the return value of prepareCssSlot
prepareCssSlotKey(narrowers) ==
  resolveGroupRuleSpec(narrowers) \o resolveSelectorPath(narrowers)

\* the slot map after prepareCssSlot
prepareCssSlot(narrowers, slots) ==
  LET slotKey == prepareCssSlotKey(narrowers) IN
  IF HasOwnSlot(slots, slotKey) \/ slotKey \in ObjectPrototypeKeys
  THEN slots
  ELSE Append(slots, [key           |-> slotKey,
                      selectorPath  |-> resolveSelectorPath(narrowers),
                      groupRuleSpec |-> resolveGroupRuleSpec(narrowers),
                      cssLines      |-> << >>])

\* the for-in loop that deletes the slots without lines
\* C6 mutant: no slot is deleted
pruneEmptySlotsKeepsAll(slots) == slots

pruneEmptySlots(slots) == SelectSeq(slots, LAMBDA slot : Len(slot.cssLines) # 0)

\* ------------------------------------------------------------------------
\* Property order of a JavaScript object: the keys that are array indices
\* come first, in ascending numeric order, the other keys follow in
\* insertion order
\* ------------------------------------------------------------------------

DigitValue(c) ==
  CASE c = "0" -> 0 [] c = "1" -> 1 [] c = "2" -> 2 [] c = "3" -> 3 [] c = "4" -> 4
    [] c = "5" -> 5 [] c = "6" -> 6 [] c = "7" -> 7 [] c = "8" -> 8 [] c = "9" -> 9

\* a canonical numeric string; the keys of the model have fewer than ten digits
IsArrayIndex(key) ==
  /\ Len(key) \in 1..9
  /\ \A i \in 1..Len(key) : Ch(key, i) \in Digits
  /\ (Len(key) > 1 => Ch(key, 1) # "0")

RECURSIVE ToNumber(_)
ToNumber(key) ==
  IF key = "" THEN 0
  ELSE 10 * ToNumber(Take(key, Len(key) - 1)) + DigitValue(Ch(key, Len(key)))

SelectSlots(slots, wantIndex) ==
  SelectSeq(slots, LAMBDA slot : IsArrayIndex(slot.key) = wantIndex)

RECURSIVE SortByIndex(_)
SortByIndex(slots) ==
  IF slots = << >> THEN << >>
  ELSE LET m == CHOOSE k \in 1..Len(slots) :
                  \A j \in 1..Len(slots) : ToNumber(slots[k].key) <= ToNumber(slots[j].key)
       IN  << slots[m] >> \o
           SortByIndex(SubSeq(slots, 1, m - 1) \o SubSeq(slots, m + 1, Len(slots)))

\* Object.values(cssSlots)
objectValues(slots) == SortByIndex(SelectSlots(slots, TRUE)) \o SelectSlots(slots, FALSE)

\* ------------------------------------------------------------------------
\* Rendering
\* ------------------------------------------------------------------------

\* C1 mutant: the slots of a group in reverse order
SlotsOfGroupLastFirst(slots, spec) ==
  LET found == SelectSeq(slots, LAMBDA slot : slot.groupRuleSpec = spec) IN
  [k \in 1..Len(found) |-> found[Len(found) + 1 - k]]

SlotsOfGroup(slots, spec) == SelectSeq(slots, LAMBDA slot : slot.groupRuleSpec = spec)

GroupSpecsOf(slots) == [k \in 1..Len(slots) |-> slots[k].groupRuleSpec]

\* Object.values(groupArrayItems(items, (slot) => slot.groupRuleSpec)): the
\* groups in order of first appearance (a group key is empty or begins with
\* "@", so it is neither an array index nor a key of Object.prototype)
groupArrayItems(items) ==
  LET specs == uniqueArrayItems(GroupSpecsOf(items)) IN
  [g \in 1..Len(specs) |-> SlotsOfGroup(items, specs[g])]

\* `${slot.selectorPath}{${slot.cssLines.join(" ")}}`
\* C7 mutant: the lines of a slot joined without the separating space
cssContentLineUnspaced(slot) == slot.selectorPath \o "{" \o join(slot.cssLines, "") \o "}"

cssContentLine(slot) == slot.selectorPath \o "{" \o join(slot.cssLines, " ") \o "}"

CssContentLines(slots, indent) ==
  [k \in 1..Len(slots) |-> indent \o cssContentLine(slots[k])]

stringifyCssSlots(slots) ==
  LET groupRuleSpec == slots[1].groupRuleSpec IN
  IF groupRuleSpec # ""
  THEN groupRuleSpec \o "{\n" \o join(CssContentLines(slots, "  "), "\n") \o "\n}"
  ELSE join(CssContentLines(slots, ""), "\n")

StringifyEach(groups) == [g \in 1..Len(groups) |-> stringifyCssSlots(groups[g])]

\* the text assigned to cssText before the keyframes are renamed
renderCssText(listSlots) == join(StringifyEach(groupArrayItems(listSlots)), "\n")

\* ------------------------------------------------------------------------
\* Keyframe names
\* ------------------------------------------------------------------------

\* [\w-]
IsNameChar(c) == IsWordChar(c) \/ c = "-"

\* first position at or after i that does not hold a name character
NameEnd(s, i) ==
  LET p == FirstPos(i, Len(s), LAMBDA j : ~IsNameChar(Ch(s, j))) IN
  IF p = 0 THEN Len(s) + 1 ELSE p

\* spec.match(/^@keyframes ([\w-]+)/)?.[1], "" when there is no match
keyframeNameOf(spec) ==
  IF startsWith(spec, "@keyframes ") /\ NameEnd(spec, 12) > 12
  THEN SubSeq(spec, 12, NameEnd(spec, 12) - 1)
  ELSE ""

KeyframeNamesOf(slots) ==
  LET keyframeSlots ==
        SelectSeq(slots, LAMBDA slot : startsWith(slot.groupRuleSpec, "@keyframes"))
  IN  [k \in 1..Len(keyframeSlots) |-> keyframeNameOf(keyframeSlots[k].groupRuleSpec)]

collectKeyframeNames(slots) == uniqueArrayItems(SelectNonEmpty(KeyframeNamesOf(slots)))

\* ------------------------------------------------------------------------
\* crc32 of helpers.ts.  A 32-bit word is a pair << high, low >> of 16-bit
\* halves, so that no intermediate value leaves the range of the integers
\* TLC computes with.
\* ------------------------------------------------------------------------

RECURSIVE Xor16(_, _, _)
Xor16(a, b, bits) ==
  IF bits = 0 THEN 0
  ELSE ((a + b) % 2) + 2 * Xor16(a \div 2, b \div 2, bits - 1)

\* a ^ b
Xor32(a, b) == << Xor16(a[1], b[1], 16), Xor16(a[2], b[2], 16) >>

\* a >>> 1
ShiftRight1(a) == << a[1] \div 2, (a[2] \div 2) + (a[1] % 2) * 32768 >>

\* a >>> 8
ShiftRight8(a) == << a[1] \div 256, (a[2] \div 256) + (a[1] % 256) * 256 >>

\* 0xedb88320
CrcPolynomial == << 60856, 33568 >>

\* the k iterations of the inner loop of makeCRCTable
RECURSIVE CrcRounds(_, _)
CrcRounds(c, k) ==
  IF k = 0 THEN c
  ELSE CrcRounds(IF c[2] % 2 = 1 THEN Xor32(CrcPolynomial, ShiftRight1(c))
                 ELSE ShiftRight1(c),
                 k - 1)

\* crcTable[n]
crcTable(n) == CrcRounds(<< 0, n >>, 8)

\* the printable ASCII characters from code 32 to code 95 and from code 97 to
\* code 126 (code 96 is the backquote, which a TLA+ string cannot hold)
AsciiLow == " !\"#$%&'()*+,-./0123456789:;<=>?@ABCDEFGHIJKLMNOPQRSTUVWXYZ[\\]^_"

AsciiHigh == "abcdefghijklmnopqrstuvwxyz{|}~"

\* str.charCodeAt(i) of the character c
charCodeAt(c) ==
  IF c = "\t" THEN 9
  ELSE IF c = "\n" THEN 10
  ELSE IF c = "\r" THEN 13
  ELSE IF \E k \in 1..Len(AsciiLow) : Ch(AsciiLow, k) = c
       THEN 31 + FirstPos(1, Len(AsciiLow), LAMBDA k : Ch(AsciiLow, k) = c)
       ELSE 96 + FirstPos(1, Len(AsciiHigh), LAMBDA k : Ch(AsciiHigh, k) = c)

\* crc = (crc >>> 8) ^ crcTable[(crc ^ str.charCodeAt(i)) & 0xff]
CrcStep(crc, code) ==
  Xor32(ShiftRight8(crc), crcTable(Xor16(crc[2] % 256, code % 256, 8)))

\* the loop of crc32 from character i on (the bound variable c holds the
\* value of crc, so that each iteration computes it once)
RECURSIVE CrcLoop(_, _, _)
CrcLoop(crc, str, i) ==
  IF i > Len(str) THEN crc
  ELSE CHOOSE r \in { CrcLoop(CrcStep(c, charCodeAt(Ch(str, i))), str, i + 1) : c \in {crc} } :
         TRUE

HexDigits == "0123456789abcdef"

\* value.toString(16).padStart(4, "0") of a 16-bit half
Hex16(n) ==
  Ch(HexDigits, (n \div 4096) + 1) \o Ch(HexDigits, ((n \div 256) % 16) + 1) \o
  Ch(HexDigits, ((n \div 16) % 16) + 1) \o Ch(HexDigits, (n % 16) + 1)

\* crc32: start from 0 ^ -1, end with (crc ^ -1) >>> 0 in hexadecimal
crc32(str) ==
  LET crc == Xor32(CrcLoop(<< 65535, 65535 >>, str, 1), << 65535, 65535 >>)
  IN  Hex16(crc[1]) \o Hex16(crc[2])

\* ------------------------------------------------------------------------
\* extractCssTemplate
\* ------------------------------------------------------------------------

\* An interpolated value is a record: kind is "string" (text holds it),
\* "number" (num holds it, a natural number), "true", "false", "null",
\* "undefined" or "object" (a CssBall)
StringValue(text) == [kind |-> "string", text |-> text, num |-> 0]

NumberValue(n) == [kind |-> "number", text |-> "", num |-> n]

OtherValue(kind) == [kind |-> kind, text |-> "", num |-> 0]

\* Number.prototype.toString of a natural number
RECURSIVE ToDecimal(_)
ToDecimal(n) ==
  IF n < 10 THEN Ch("0123456789", n + 1)
  ELSE ToDecimal(n \div 10) \o Ch("0123456789", (n % 10) + 1)

\* the text of a property of Object.prototype, as text += appends it
PrototypeValueText(key) ==
  IF key = "__proto__" THEN "[object Object]"
  ELSE "function " \o (IF key = "constructor" THEN "Object" ELSE key) \o
       "() { [native code] }"

\* value.toString() of a value that is neither false, null, undefined nor ""
valueToString(value) ==
  IF value.kind = "string" THEN value.text
  ELSE IF value.kind = "number" THEN ToDecimal(value.num)
  ELSE IF value.kind = "true" THEN "true"
  ELSE "[object Object]"

\* classNameToSourceCssTextMap is a list of pairs << className, sourceCssText >>,
\* the own properties of the object
HasOwnText(map, key) == \E k \in 1..Len(map) : map[k][1] = key

OwnText(map, key) == map[CHOOSE k \in 1..Len(map) : map[k][1] = key][2]

\* lines 167..178: what one value appends to text.  The test
\* classNameToSourceCssTextMap?.[value] is a test of truthiness: an own
\* property that holds the empty text fails it, a property of
\* Object.prototype passes it
valueText(value, map) ==
  IF value.kind = "string" /\ HasOwnText(map, value.text) /\ OwnText(map, value.text) # ""
  THEN OwnText(map, value.text)
  ELSE IF value.kind = "string" /\ ~HasOwnText(map, value.text)
          /\ value.text \in ObjectPrototypeKeys
  THEN PrototypeValueText(value.text)
  ELSE IF value.kind \in {"false", "null", "undefined"}
          \/ (value.kind = "string" /\ value.text = "")
  THEN ""
  ELSE valueToString(value)

\* lines 162..180: the text before the replacements
RECURSIVE concatTemplate(_, _, _, _)
concatTemplate(chunks, vals, map, i) ==
  IF i > Len(vals) THEN chunks[i]
  ELSE chunks[i] \o valueText(vals[i], map) \o concatTemplate(chunks, vals, map, i + 1)

\* /\s*\r?\n\s*/ at j: the run of white space that starts at j, when it
\* holds a "\n"
NewlineRunEnd(s, j) ==
  LET r == SkipSpaces(s, j) IN
  IF \E n \in j..(r - 1) : Ch(s, n) = "\n" THEN r - 1 ELSE 0

\* .replace(/\s*\r?\n\s*/g, "")
removeNewlineRuns(s) ==
  ReplaceMatches(s, 1,
    [j \in 1..Len(s) |-> NewlineRunEnd(s, j)],
    [j \in 1..Len(s) |-> ""])

\* .replace(/;;/g, ";")
removeDoubleSemicolons(s) == replaceAll(s, ";;", ";")

extractCssTemplate(chunks, vals, map) ==
  removeDoubleSemicolons(removeSpacesAroundChars(removeNewlineRuns(
    concatTemplate(chunks, vals, map, 1))))

\* ------------------------------------------------------------------------
\* createCssBallCached
\* ------------------------------------------------------------------------

\* cssBalls.find((ball) => ball.sourceCssText === sourceCssText): its index, 0
\* when there is none
findCssBall(balls, sourceCssText) ==
  FirstPos(1, Len(balls), LAMBDA k : balls[k].sourceCssText = sourceCssText)

\* sourceCssText.replace(/,\r?\n/g, ",")
joinCommaLines(s) ==
  ReplaceMatches(s, 1,
    [j \in 1..Len(s) |-> IF MatchAt(s, j, ",\r\n") THEN j + 2
                         ELSE IF MatchAt(s, j, ",\n") THEN j + 1 ELSE 0],
    [j \in 1..Len(s) |-> ","])

\* `cs_${crc32(inputCssTextMod)}`
classNameOf(sourceCssText) == "cs_" \o crc32(joinCommaLines(sourceCssText))

\* map[key] = text on the list of own properties
setOwnText(map, key, text) ==
  IF HasOwnText(map, key)
  THEN [k \in 1..Len(map) |-> IF map[k][1] = key THEN << key, text >> ELSE map[k]]
  ELSE Append(map, << key, text >>)

\* pushCssTextToEmitterForSsr: if (!pageCssTexts[className]) pageCssTexts[className] = cssText
pushCssTextToEmitterForSsr(texts, className, text) ==
  IF HasOwnText(texts, className) /\ OwnText(texts, className) # "" THEN texts
  ELSE setOwnText(texts, className, text)

\* ------------------------------------------------------------------------
\* State
\* ------------------------------------------------------------------------

VARIABLES
  pc,              \* position: "idle", "createCssBall", "start", "scan", "render",
                   \* "rename", "done"
  caller,          \* who called extractNestedCss: "direct" or "css"
  cssBodyText,     \* extractNestedCss: the argument cssBodyText
  topSelector,     \* extractNestedCss: the argument topSelector
  srcLines,        \* extractNestedCss: the normalized lines
  lineNo,          \* extractNestedCss: index of the next line of the for loop
  narrowers,       \* extractNestedCss: the scope stack
  cssSlots,        \* extractNestedCss: the slot map, own properties in insertion order
  slotKey,         \* extractNestedCss: the key of the selected slot
  cssText,         \* extractNestedCss: the text under construction, then the result
  keyframeNames,   \* extractNestedCss: the keyframe names still to rename
  outcome,         \* how the last call ended: "none", "returned" or "threw"
  template,        \* css: the literal chunks of the call
  values,          \* css: the interpolated values of the call
  inputCssText,    \* css: the text extractCssTemplate returned
  cssBalls,        \* moduleLocalStateCommon.cssBalls
  classNameToSourceCssTextMap,  \* moduleLocalStateCommon.classNameToSourceCssTextMap
  pageCssTexts     \* moduleLocalStateForSsr.pageCssTexts

flattenVars ==
  << cssBodyText, topSelector, srcLines, lineNo, narrowers, cssSlots, slotKey,
     cssText, keyframeNames >>

cssVars == << template, values, inputCssText >>

moduleVars == << cssBalls, classNameToSourceCssTextMap, pageCssTexts >>

vars == << pc, caller, outcome, flattenVars, cssVars, moduleVars >>

\* ------------------------------------------------------------------------
\* extractNestedCss, one step per loop iteration
\* ------------------------------------------------------------------------

\* lines 378..382: normalize, create the stack and select the first slot
extractNestedCssBegin ==
  /\ pc = "start"
  /\ srcLines' = transformCssBodyTextToNormalizedLines(cssBodyText)
  /\ lineNo' = 1
  /\ narrowers' = << topSelector >>
  /\ cssSlots' = prepareCssSlot(<< topSelector >>, << >>)
  /\ slotKey' = prepareCssSlotKey(<< topSelector >>)
  /\ pc' = "scan"
  /\ UNCHANGED << caller, outcome, cssBodyText, topSelector, cssText, keyframeNames,
                  cssVars, moduleVars >>

\* narrowers.pop(): no effect on an empty array
pop(stack) == IF stack = << >> THEN << >> ELSE SubSeq(stack, 1, Len(stack) - 1)

\* C13 mutant: the line replaces the lines the slot holds
pushCssLineReplacing(slots, key, line) ==
  [slots EXCEPT ![SlotIndex(slots, key)].cssLines = << line >>]

\* cssSlots[slotKey].cssLines.push(line)
pushCssLine(slots, key, line) ==
  [slots EXCEPT ![SlotIndex(slots, key)].cssLines = Append(@, line)]

\* lines 384..395: one iteration of the for loop.  A declaration line whose
\* slotKey is not an own property of cssSlots reads a property of
\* Object.prototype, which has no cssLines: the push throws a TypeError and
\* the call ends
ScanLine ==
  /\ pc = "scan"
  /\ lineNo <= Len(srcLines)
  /\ LET line == srcLines[lineNo] IN
     IF endsWith(line, "{")
     THEN LET stack == Append(narrowers, Take(line, Len(line) - 1)) IN
          /\ narrowers' = stack
          /\ cssSlots' = prepareCssSlot(stack, cssSlots)
          /\ slotKey' = prepareCssSlotKey(stack)
          /\ lineNo' = lineNo + 1
          /\ UNCHANGED << pc, outcome >>
     ELSE IF endsWith(line, "}")
     THEN LET stack == pop(narrowers) IN
          /\ narrowers' = stack
          /\ cssSlots' = prepareCssSlot(stack, cssSlots)
          /\ slotKey' = prepareCssSlotKey(stack)
          /\ lineNo' = lineNo + 1
          /\ UNCHANGED << pc, outcome >>
     ELSE IF HasOwnSlot(cssSlots, slotKey)
     THEN /\ cssSlots' = pushCssLine(cssSlots, slotKey, line)
          /\ lineNo' = lineNo + 1
          /\ UNCHANGED << pc, outcome, narrowers, slotKey >>
     ELSE /\ pc' = IF caller = "css" THEN "idle" ELSE "done"
          /\ outcome' = "threw"
          /\ UNCHANGED << lineNo, narrowers, cssSlots, slotKey >>
  /\ UNCHANGED << caller, cssBodyText, topSelector, srcLines, cssText, keyframeNames,
                  cssVars, moduleVars >>

\* lines 396..400: the loop has ended, delete the slots without lines
Prune ==
  /\ pc = "scan"
  /\ lineNo > Len(srcLines)
  /\ cssSlots' = pruneEmptySlots(cssSlots)
  /\ pc' = "render"
  /\ UNCHANGED << caller, outcome, cssBodyText, topSelector, srcLines, lineNo, narrowers,
                  slotKey, cssText, keyframeNames, cssVars, moduleVars >>

\* lines 402..412: group, stringify, collect the keyframe names
Render ==
  /\ pc = "render"
  /\ cssText' = renderCssText(objectValues(cssSlots))
  /\ keyframeNames' = collectKeyframeNames(objectValues(cssSlots))
  /\ pc' = "rename"
  /\ UNCHANGED << caller, outcome, cssBodyText, topSelector, srcLines, lineNo, narrowers,
                  cssSlots, slotKey, cssVars, moduleVars >>

\* topSelector.slice(1)
topClassNameOf(selector) == Drop(selector, 1)

\* lines 414..419: one iteration of the renaming loop
RenameKeyframe ==
  /\ pc = "rename"
  /\ keyframeNames # << >>
  /\ cssText' = replaceAll(cssText, keyframeNames[1],
                           topClassNameOf(topSelector) \o "_" \o keyframeNames[1])
  /\ keyframeNames' = Tail(keyframeNames)
  /\ UNCHANGED << pc, caller, outcome, cssBodyText, topSelector, srcLines, lineNo,
                  narrowers, cssSlots, slotKey, cssVars, moduleVars >>

\* line 421 of a direct call: return cssText
Return ==
  /\ pc = "rename"
  /\ keyframeNames = << >>
  /\ caller = "direct"
  /\ pc' = "done"
  /\ outcome' = "returned"
  /\ UNCHANGED << caller, flattenVars, cssVars, moduleVars >>

\* ------------------------------------------------------------------------
\* Inputs of a direct call of extractNestedCss
\* ------------------------------------------------------------------------

\* longest input, in chunks
MaxChunks == 3

\* the pieces the generated inputs are made of: declarations, selectors with
\* and without "&", a comma list, an at-rule of each kind, a closing brace, a
\* comment, an attribute selector whose value holds "$$", and two selectors
\* that only an unmatched closing brace exposes as slot keys
Chunks ==
  { "a:b;", " c : d ;\n", "}", ".x{", " &:hover {", ".a,.b {",
    "@media (color){", "@keyframes k{", "// n\n", "[t='$$']{", "1{", "constructor{" }

RECURSIVE TextsOf(_)
TextsOf(n) ==
  IF n = 0 THEN {""}
  ELSE LET shorter == TextsOf(n - 1) IN
       shorter \cup { t \o c : t \in shorter, c \in Chunks }

\* the inputs the specification and the tests of the repository name
ExampleCalls ==
  { << ".btn{color:red; &:hover{color:blue;}}", ".cs_abc" >>,
    << ".x,.y{ .a,.b{color:red;} }", ".s" >>,
    << ".btn{ &:hover{color:blue;} }", ".s" >>,
    << ".empty{ .inner{} }", ".s" >>,
    << "@media (min-width:600px) and (color){ @media (color) and (min-width:600px){ a:b; } }", ".s" >>,
    << "@media (orientation:landscape){ a:b; }", ".s" >>,
    << "@keyframes spin{ from{ a:b; } } animation-name:spin;", ".c" >>,
    << "@keyframes spin{ from{ a:b; } } @keyframes spin2{ to{ c:d; } } animation:spin2;", ".c" >>,
    << "a:b; } 2{ c:d; } 10{ e:f; }", ".s" >>,
    << "[t='$$']{ &:hover{ a:b; } }", ".s" >>,
    << ".a{x:1;} .b{z:3;} .a{y:2;}", ".s" >>,
    << "@keyframes z{ 50%{ x:1; } } @keyframes z5{ 0%{ y:2; } }", ".s" >>,
    << ".spin{ animation:spin; } @keyframes spin{ to{ a:b; } }", ".c" >>,
    << "color : red ;\n  /* note */ margin:0 auto;\n", ".s" >> }

DirectCalls == { << t, ".s" >> : t \in TextsOf(MaxChunks) } \cup ExampleCalls

\* ------------------------------------------------------------------------
\* Specification of one direct call of extractNestedCss
\* ------------------------------------------------------------------------

\* a direct call extractNestedCss(call[1], call[2]) is about to run
InitCall(call) ==
  /\ cssBodyText = call[1]
  /\ topSelector = call[2]
  /\ pc = "start"
  /\ caller = "direct"
  /\ outcome = "none"
  /\ srcLines = << >>
  /\ lineNo = 1
  /\ narrowers = << >>
  /\ cssSlots = << >>
  /\ slotKey = ""
  /\ cssText = ""
  /\ keyframeNames = << >>
  /\ template = << >>
  /\ values = << >>
  /\ inputCssText = ""
  /\ cssBalls = << >>
  /\ classNameToSourceCssTextMap = << >>
  /\ pageCssTexts = << >>

Init == \E call \in DirectCalls : InitCall(call)

Next ==
  \/ extractNestedCssBegin
  \/ ScanLine
  \/ Prune
  \/ Render
  \/ RenameKeyframe
  \/ Return

Spec == Init /\ [][Next]_vars

\* ------------------------------------------------------------------------
\* css: the calls of the model
\* ------------------------------------------------------------------------

\* most CssBalls the cache is let grow to
MaxBalls == 1

\* the class names registered so far
ClassNames(map) == { map[k][1] : k \in 1..Len(map) }

\* the values a call interpolates: texts, a number, false, the name of a
\* property of Object.prototype, and every class name an earlier call returned
CssValues(map) ==
  { StringValue(""), StringValue(";"), StringValue("x"), StringValue("constructor"),
    NumberValue(7), OtherValue("false") }
  \cup { StringValue(name) : name \in ClassNames(map) }

\* the templates without a value
PlainTemplates ==
  { << "" >>, << " a : b ;\n" >>, << "@keyframes k{ to{ a:b; } }" >>,
    << "} constructor{ a:b; }" >> }

\* the templates with one value
ValueTemplates == { << "", "c:d;" >>, << "a:b;", ";" >> }

CssCalls(map) ==
  { << t, << >> >> : t \in PlainTemplates }
  \cup { << t, << v >> >> : t \in ValueTemplates, v \in CssValues(map) }

\* ------------------------------------------------------------------------
\* css and createCssBallCached
\* ------------------------------------------------------------------------

\* the locals of extractNestedCss before and after a call
NoFlattenCall ==
  /\ cssBodyText = ""
  /\ topSelector = ""
  /\ srcLines = << >>
  /\ lineNo = 1
  /\ narrowers = << >>
  /\ cssSlots = << >>
  /\ slotKey = ""
  /\ cssText = ""
  /\ keyframeNames = << >>

\* resin_css.ts lines 199..208: css interpolates the template
css ==
  /\ pc = "idle"
  /\ \E call \in CssCalls(classNameToSourceCssTextMap) :
       /\ template' = call[1]
       /\ values' = call[2]
       /\ inputCssText' = extractCssTemplate(call[1], call[2], classNameToSourceCssTextMap)
  /\ pc' = "createCssBall"
  /\ outcome' = "none"
  /\ UNCHANGED << caller, flattenVars, moduleVars >>

\* resin_css.ts lines 82..88: a cached text returns its class name, a new
\* text is flattened under its class name
createCssBallCached ==
  /\ pc = "createCssBall"
  /\ IF findCssBall(cssBalls, inputCssText) # 0
     THEN /\ pc' = "idle"
          /\ outcome' = "returned"
          /\ UNCHANGED << cssBodyText, topSelector >>
     ELSE /\ Len(cssBalls) < MaxBalls
          /\ cssBodyText' = joinCommaLines(inputCssText)
          /\ topSelector' = "." \o classNameOf(inputCssText)
          /\ pc' = "start"
          /\ UNCHANGED outcome
  /\ UNCHANGED << caller, srcLines, lineNo, narrowers, cssSlots, slotKey, cssText,
                  keyframeNames, cssVars, moduleVars >>

\* resin_css.ts lines 89..94, once extractNestedCss has returned: store the
\* CssBall, register its source text, emit its text (server-side rendering)
createCssBallStore ==
  /\ pc = "rename"
  /\ keyframeNames = << >>
  /\ caller = "css"
  /\ LET className == topClassNameOf(topSelector) IN
     /\ cssBalls' = Append(cssBalls, [className     |-> className,
                                      sourceCssText |-> inputCssText,
                                      cssText       |-> cssText])
     /\ classNameToSourceCssTextMap' =
          setOwnText(classNameToSourceCssTextMap, className, inputCssText)
     /\ pageCssTexts' = pushCssTextToEmitterForSsr(pageCssTexts, className, cssText)
  /\ pc' = "idle"
  /\ outcome' = "returned"
  /\ cssBodyText' = ""
  /\ topSelector' = ""
  /\ srcLines' = << >>
  /\ lineNo' = 1
  /\ narrowers' = << >>
  /\ cssSlots' = << >>
  /\ slotKey' = ""
  /\ cssText' = ""
  /\ UNCHANGED << caller, keyframeNames, cssVars >>

\* ------------------------------------------------------------------------
\* Specification of a sequence of css calls
\* ------------------------------------------------------------------------

InitCss ==
  /\ pc = "idle"
  /\ caller = "css"
  /\ outcome = "none"
  /\ NoFlattenCall
  /\ template = << >>
  /\ values = << >>
  /\ inputCssText = ""
  /\ cssBalls = << >>
  /\ classNameToSourceCssTextMap = << >>
  /\ pageCssTexts = << >>

NextCss ==
  \/ css
  \/ createCssBallCached
  \/ extractNestedCssBegin
  \/ ScanLine
  \/ Prune
  \/ Render
  \/ RenameKeyframe
  \/ createCssBallStore

SpecCss == InitCss /\ [][NextCss]_vars

\* ------------------------------------------------------------------------
\* Reading the text extractNestedCss returns: its lines, and the rules
\* printed for a group
\* ------------------------------------------------------------------------

OutputLines == IF cssText = "" THEN << >> ELSE split(cssText, "\n")

\* line i opens a group wrapper, closes one, or lies inside one
IsWrapperOpen(i) == endsWith(OutputLines[i], "{")

IsWrapperClose(i) == OutputLines[i] = "}"

WrapperOf(i) ==
  LastPos(1, i - 1, LAMBDA o : IsWrapperOpen(o) /\ \A c \in (o + 1)..i : ~IsWrapperClose(c))

\* the positions of the rule lines printed for the group spec
RulePositions(spec) ==
  { i \in 1..Len(OutputLines) :
      /\ ~IsWrapperOpen(i)
      /\ ~IsWrapperClose(i)
      /\ IF spec = "" THEN WrapperOf(i) = 0
         ELSE WrapperOf(i) # 0 /\ OutputLines[WrapperOf(i)] = spec \o "{" }

\* the rule lines printed for the group spec, in the order of the text,
\* without the indentation of a wrapped group
RulesInOutput(spec) ==
  LET at == RulePositions(spec)
      nth(n) == CHOOSE i \in at : Cardinality({ j \in at : j < i }) = n - 1
  IN  [n \in 1..Cardinality(at) |->
         IF spec = "" THEN OutputLines[nth(n)] ELSE Drop(OutputLines[nth(n)], 2)]

\* the rules of the slots of the group spec, in the order in which the scan
\* first selected their keys (the insertion order of cssSlots)
RulesInEncounterOrder(spec) ==
  LET slots == SelectSeq(cssSlots, LAMBDA slot : slot.groupRuleSpec = spec)
  IN  [k \in 1..Len(slots) |->
         slots[k].selectorPath \o "{" \o join(slots[k].cssLines, " ") \o "}"]

\* Render has just run: cssText is the rendered text, no keyframe is renamed yet
Rendered ==
  pc = "rename" /\ keyframeNames = collectKeyframeNames(objectValues(cssSlots))

\* the call has returned its text
Returned == pc = "done" /\ outcome = "returned"

\* ------------------------------------------------------------------------
\* Claims
\* ------------------------------------------------------------------------

PathPartsOf(stack) ==
  IF findKeyframeIndex(stack) >= 1
  THEN SubSeq(stack, findKeyframeIndex(stack) + 1, Len(stack))
  ELSE SelectSeq(stack, LAMBDA it : ~IsConditionalGroup(it))

\* the path the earlier parts of the stack combine to, and the last part
ParentPath == combineSelectorPaths(SubSeq(PathPartsOf(narrowers), 1, Len(PathPartsOf(narrowers)) - 1))

LastSegment == PathPartsOf(narrowers)[Len(PathPartsOf(narrowers))]

\* the scan has selected a slot of cssSlots under a stack of two or more
\* path parts
NestedSlotSelected ==
  pc = "scan" /\ Len(PathPartsOf(narrowers)) >= 2 /\ HasOwnSlot(cssSlots, slotKey)

SelectedSlot == cssSlots[SlotIndex(cssSlots, slotKey)]

\* C2: the selector path of a nested slot has one alternative per pair of an
\* alternative of the parent path and an alternative of the segment, the
\* parent alternative varying slowest, each the concat of its pair; the
\* example of the specification returns its four paths with the declaration.
C2_CartesianProduct ==
  /\ NestedSlotSelected =>
       LET P == split(ParentPath, ",")
           S == split(LastSegment, ",")
           R == split(SelectedSlot.selectorPath, ",")
       IN  /\ Len(R) = Len(P) * Len(S)
           /\ \A i \in 1..Len(P) : \A j \in 1..Len(S) :
                R[(i - 1) * Len(S) + j] = concatPathSegment(P[i], S[j])
  /\ (Returned /\ cssBodyText = ".x,.y{ .a,.b{color:red;} }" /\ topSelector = ".s") =>
       cssText = ".s .x .a,.s .x .b,.s .y .a,.s .y .b{color:red;}"

\* C2 witness: the scan is inside a segment of two alternatives under a
\* parent path of two alternatives.
C2_Witness ==
  /\ NestedSlotSelected
  /\ Len(split(ParentPath, ",")) = 2
  /\ Len(split(LastSegment, ",")) = 2
  /\ SelectedSlot.selectorPath = ".s .x .a,.s .x .b,.s .y .a,.s .y .b"

\* C3 as stated: when a segment holds "&", the selector path is the segment
\* with every "&" replaced by the parent path, nothing else inserted or
\* changed; the example of the specification returns .s .btn:hover.
C3_AmpersandReplaced ==
  /\ (/\ NestedSlotSelected
      /\ includes(LastSegment, "&")
      /\ ~includes(LastSegment, ",")
      /\ ~includes(ParentPath, ",")) =>
       SelectedSlot.selectorPath = trim(join(split(LastSegment, "&"), ParentPath))
  /\ (Returned /\ cssBodyText = ".btn{ &:hover{color:blue;} }" /\ topSelector = ".s") =>
       cssText = ".s .btn:hover{color:blue;}"

\* the @media or @container keyword of a spec, and its conditions: the texts
\* that the word "and" between spaces separates
GroupKeywordOf(spec) == IF startsWith(spec, "@media") THEN "@media" ELSE "@container"

ConditionsOf(spec) == TrimEach(split(trim(Drop(spec, Len(GroupKeywordOf(spec)))), " and "))

RECURSIVE ConditionsOfAll(_)
ConditionsOfAll(specs) ==
  IF specs = << >> THEN << >> ELSE ConditionsOf(specs[1]) \o ConditionsOfAll(Tail(specs))

\* the conditions without their later repetitions
FirstOccurrences(items) ==
  SelectSeq([k \in 1..Len(items) |-> << k, items[k] >>],
            LAMBDA e : \A j \in 1..(e[1] - 1) : items[j] # e[2])

ConditionalGroupsOf(stack) == SelectSeq(stack, LAMBDA it : IsConditionalGroup(it))

\* C4 as stated: under nested @media or @container specs the group spec of
\* the selected slot is the keyword of the first spec followed by the
\* conditions of all specs, each intact and once, in order of first
\* occurrence, joined by " and ".
C4_ConditionsUnion ==
  (/\ pc = "scan"
   /\ findKeyframeIndex(narrowers) = 0
   /\ ConditionalGroupsOf(narrowers) # << >>
   /\ HasOwnSlot(cssSlots, slotKey)) =>
    LET specs == ConditionalGroupsOf(narrowers)
        kept  == FirstOccurrences(ConditionsOfAll(specs))
    IN  SelectedSlot.groupRuleSpec
          = GroupKeywordOf(specs[1]) \o " " \o join([k \in 1..Len(kept) |-> kept[k][2]], " and ")

\* C5 as stated: every declared keyframe name N is declared in the returned
\* text as @keyframes C_N, C the scope class name without its dot, and a
\* declaration animation:N; or animation-name:N; reads C_N in the returned
\* text, also when several names are declared.
C5_PrefixedOnce ==
  Returned =>
    \A n \in 1..Len(collectKeyframeNames(objectValues(cssSlots))) :
      LET N  == collectKeyframeNames(objectValues(cssSlots))[n]
          CN == Drop(topSelector, 1) \o "_" \o N
      IN  /\ \E i \in 1..Len(OutputLines) : OutputLines[i] = "@keyframes " \o CN \o "{"
          /\ \A k \in 1..Len(cssSlots) : \A l \in 1..Len(cssSlots[k].cssLines) :
               \A property \in {"animation:", "animation-name:"} :
                 cssSlots[k].cssLines[l] = property \o N \o ";" =>
                   includes(cssText, property \o CN \o ";")

\* a normalized line that is neither an opening nor a closing line
IsDeclarationLine(line) == ~endsWith(line, "{") /\ ~endsWith(line, "}")

\* C6: the text the call renders and returns has no rule without a
\* declaration and no group wrapper without a rule, and a body without any
\* declaration line returns the empty text.
C6_NoEmptyRule ==
  /\ (Returned \/ pc = "rename") =>
       \A i \in 1..Len(OutputLines) :
         /\ ~endsWith(OutputLines[i], "{}")
         /\ IsWrapperOpen(i) => (i < Len(OutputLines) /\ ~IsWrapperClose(i + 1))
  /\ (Returned /\ \A l \in 1..Len(srcLines) : ~IsDeclarationLine(srcLines[l])) =>
       cssText = ""

\* C6 witness: a call whose body opens rules and declares nothing has
\* returned the empty text.
C6_Witness ==
  /\ Returned
  /\ cssBodyText = ".empty{ .inner{} }"
  /\ srcLines = << ".empty{", ".inner{", "}", "}" >>
  /\ cssText = ""

\* s without its spaces, tabs and line breaks
WithoutWhitespace(s) ==
  replaceAll(replaceAll(replaceAll(replaceAll(s, " ", ""), "\n", ""), "\t", ""), "\r", "")

\* C7: a body without braces that has a declaration line returns one rule,
\* the scope selector around the normalized declaration lines joined by one
\* space; for a body without a comment that is the scope selector around
\* the body, up to whitespace.
C7_FlatBody ==
  (/\ Returned
   /\ ~includes(cssBodyText, "{")
   /\ ~includes(cssBodyText, "}")
   /\ srcLines # << >>) =>
    /\ cssText = topSelector \o "{" \o join(srcLines, " ") \o "}"
    /\ ~includes(cssBodyText, "/") =>
         WithoutWhitespace(cssText) = WithoutWhitespace(topSelector \o "{" \o cssBodyText \o "}")

\* C7 witness: a call with a body of two declarations and no braces has
\* returned its one rule.
C7_Witness ==
  /\ Returned
  /\ cssBodyText = "color : red ;\n  /* note */ margin:0 auto;\n"
  /\ cssText = ".s{color:red; margin:0 auto;}"

\* C8 as stated: for every body, unmatched closing braces included, the call
\* raises no exception and the slot that the next declaration line is
\* appended to exists.
C8_NoException ==
  /\ outcome # "threw"
  /\ pc = "scan" => HasOwnSlot(cssSlots, slotKey)

\* css has interpolated a template with one value, a string that is a key of
\* classNameToSourceCssTextMap
ReferenceInterpolated ==
  /\ pc = "createCssBall"
  /\ Len(values) = 1
  /\ values[1].kind = "string"
  /\ HasOwnText(classNameToSourceCssTextMap, values[1].text)

\* C9 as stated: a value that is a key of the mapping is replaced by the
\* source text the mapping holds for it, whatever that text is, and the key
\* itself is not written into the result.
C9_ReferenceReplaced ==
  ReferenceInterpolated =>
    /\ inputCssText
         = removeDoubleSemicolons(removeSpacesAroundChars(removeNewlineRuns(
             template[1] \o OwnText(classNameToSourceCssTextMap, values[1].text)
               \o template[2])))
    /\ ~includes(inputCssText, values[1].text)

\* C10 as stated: the text css interpolates from any chunks and values holds
\* no two consecutive semicolons.
C10_NoDoubleSemicolon ==
  pc = "createCssBall" => ~includes(inputCssText, ";;")

\* C11 as stated: in every state of the scan the scope stack is not empty
\* and its bottom entry is the scope selector.
C11_StackNeverEmpty ==
  pc = "scan" => (narrowers # << >> /\ narrowers[1] = topSelector)

\* the entries of the stack nested inside its first @keyframes entry
BelowKeyframes(stack) == SubSeq(stack, findKeyframeIndex(stack) + 1, Len(stack))

RECURSIVE StackAfter(_)
StackAfter(n) ==
  IF n = 0 THEN << topSelector >>
  ELSE IF endsWith(srcLines[n], "{")
       THEN Append(StackAfter(n - 1), Take(srcLines[n], Len(srcLines[n]) - 1))
       ELSE IF endsWith(srcLines[n], "}")
            THEN pop(StackAfter(n - 1))
            ELSE StackAfter(n - 1)

\* the pair of group spec and selector path that the stack resolves to when
\* line n is scanned
PairWhenScanned(n) ==
  << resolveGroupRuleSpec(StackAfter(n - 1)), resolveSelectorPath(StackAfter(n - 1)) >>

\* the declaration lines among the first upTo lines that were scanned while
\* the stack resolved to the key, in source order
LinesScannedUnder(key, upTo) ==
  LET at == SelectSeq([n \in 1..upTo |-> n],
              LAMBDA n : /\ IsDeclarationLine(srcLines[n])
                         /\ PairWhenScanned(n)[1] \o PairWhenScanned(n)[2] = key)
  IN  [m \in 1..Len(at) |-> srcLines[at[m]]]

\* C13: cssSlots holds one slot per key; during the scan and when the text
\* is rendered a slot holds the declaration lines scanned in every context
\* that resolved to its key, in source order, and the rendered text has
\* exactly one rule for it; the example of the specification returns one
\* rule for .a with both declarations.
C13_SharedSlot ==
  /\ \A k, l \in 1..Len(cssSlots) : cssSlots[k].key = cssSlots[l].key => k = l
  /\ pc = "scan" =>
       \A k \in 1..Len(cssSlots) :
         cssSlots[k].cssLines = LinesScannedUnder(cssSlots[k].key, lineNo - 1)
  /\ Rendered =>
       \A k \in 1..Len(cssSlots) :
         /\ cssSlots[k].cssLines = LinesScannedUnder(cssSlots[k].key, Len(srcLines))
         /\ Cardinality({ n \in 1..Len(RulesInOutput(cssSlots[k].groupRuleSpec)) :
                            startsWith(RulesInOutput(cssSlots[k].groupRuleSpec)[n],
                                       cssSlots[k].selectorPath \o "{") }) = 1
         /\ \E n \in 1..Len(RulesInOutput(cssSlots[k].groupRuleSpec)) :
              RulesInOutput(cssSlots[k].groupRuleSpec)[n]
                = cssSlots[k].selectorPath \o "{" \o join(cssSlots[k].cssLines, " ") \o "}"
  /\ (Returned /\ cssBodyText = ".a{x:1;} .b{z:3;} .a{y:2;}" /\ topSelector = ".s") =>
       cssText = ".s .a{x:1; y:2;}\n.s .b{z:3;}"

\* C13 witness: a call that entered .a twice, with .b in between, has
\* returned one rule for .a that holds the declarations of both contexts.
C13_Witness ==
  /\ Returned
  /\ srcLines = << ".a{", "x:1;", "}", ".b{", "z:3;", "}", ".a{", "y:2;", "}" >>
  /\ Len(cssSlots) = 2
  /\ cssSlots[1].cssLines = << "x:1;", "y:2;" >>
  /\ cssText = ".s .a{x:1; y:2;}\n.s .b{z:3;}"

\* C14 as stated: the slot the scan has selected carries the group spec and
\* the selector path that the stack resolves to, so that stacks that resolve
\* to different pairs select different slots.
C14_SlotOfResolvedPair ==
  (pc = "scan" /\ HasOwnSlot(cssSlots, slotKey)) =>
    /\ SelectedSlot.groupRuleSpec = resolveGroupRuleSpec(narrowers)
    /\ SelectedSlot.selectorPath = resolveSelectorPath(narrowers)

\* the at-rule keyword of a group spec: its text before the first space
AtRuleKeywordOf(spec) == split(spec, " ")[1]

\* an output line without the indentation of a wrapped group
Unindented(line) == IF startsWith(line, "  ") THEN Drop(line, 2) ELSE line

\* C15 as stated: in the returned text every group wrapper still begins
\* with the at-rule keyword of the group spec of a slot, every slot still
\* has a rule that begins with its selector path, and every declaration
\* still has its property name.
C15_RenamesOnlyKeyframeNames ==
  Returned =>
    /\ \A i \in 1..Len(OutputLines) :
         IsWrapperOpen(i) =>
           \E k \in 1..Len(cssSlots) :
             startsWith(OutputLines[i], AtRuleKeywordOf(cssSlots[k].groupRuleSpec) \o " ")
    /\ \A k \in 1..Len(cssSlots) :
         \E i \in 1..Len(OutputLines) :
           /\ startsWith(Unindented(OutputLines[i]), cssSlots[k].selectorPath \o "{")
           /\ \A l \in 1..Len(cssSlots[k].cssLines) :
                includes(cssSlots[k].cssLines[l], ":") =>
                  includes(OutputLines[i],
                           split(cssSlots[k].cssLines[l], ":")[1] \o ":")

====
